---------------------------- MODULE Spec2Model ----------------------------
(***************************************************************************)
(* A model of src/Search.py: the lexical masker, the identifier tokenizer, *)
(* the bounded edit-distance matcher, the two per-file scan engines, the   *)
(* aggregation loops of cmd_near / cmd_compare and the expectation         *)
(* checker.                                                                *)
(*                                                                         *)
(* Texts and identifiers are sequences of one-character strings.  Every    *)
(* component has its own group of variables and its own specification;     *)
(* a specification leaves the other groups at their idle value.            *)
(***************************************************************************)
EXTENDS Integers, Sequences, FiniteSets, TLC

VARIABLES
    \* bounded_levenshtein(a, b, k)
    lev_call,     \* the arguments of the call: [a, b, k]
    lev_a,        \* local a (after the swap of line 165)
    lev_b,        \* local b
    lev_prev,     \* previous DP row, indexed 0..nb
    lev_i,        \* row about to be processed
    lev_pc,       \* "start" | "rows" | "done"
    lev_ret,      \* value returned
    lev_exit,     \* the return statement taken: "equal" | "length" | "row" | "final"
    \* mask_cpp_comments_and_strings(src)
    mask_src,     \* the argument
    mask_out,     \* out, the list of characters being overwritten
    mask_i,       \* i, the 0-based scan position
    mask_pc,      \* "loop" | "break" | "done"
    \* iter_identifiers_with_pos(text), a generator
    tok_text,     \* the argument
    tok_lines,    \* text.splitlines()
    tok_lineno,   \* lineno of the line being searched (1-based)
    tok_pos,      \* where finditer resumes in that line (0-based)
    tok_yield,    \* the triples yielded so far
    tok_pc,       \* "start" | "lines" | "done"
    \* scan_file_near(path, root, needle, max_dist, ...)
    near_file,    \* the file at path: [path, readable, text]
    near_args,    \* the other arguments
    near_toks,    \* the triples of iter_identifiers_with_pos(text)
    near_idx,     \* the triple the loop of line 318 is at (1-based)
    near_out,     \* out: dist -> token -> aggregate
    near_pc,      \* "start" | "loop" | "done"
    \* main, cmd_near and cmd_compare
    cmd,            \* args.cmd: "near" | "compare"
    cmd_files,      \* files, the list of collect_files
    cmd_args,       \* args
    cmd_pc,         \* "start" | "seq" | "pool" | "merge" | "totals" | "check" | "done" | "aborted"
    cmd_k,          \* the position of the running loop in its list (1-based)
    pool_queue,     \* Pool: the tasks (positions in work) no worker has taken yet
    pool_running,   \* Pool: the tasks the workers are running
    pool_results,   \* Pool: the result of every finished task, by position in work
    pool_order,     \* the tasks in the order in which they finished
    cmd_partials,   \* cmd_near: the list pool.starmap returned
    cmd_merged,     \* cmd_near: the files whose partial was merged, in merge order
    cmd_agg,        \* cmd_near: agg
    cmd_rows,       \* cmd_compare: rows
    cmd_total,      \* cmd_compare: overall_row
    cmd_overall_ok, \* cmd_compare: overall_ok
    cmd_mismatches  \* cmd_compare: mismatches

levVars == <<lev_call, lev_a, lev_b, lev_prev, lev_i, lev_pc, lev_ret, lev_exit>>

maskVars == <<mask_src, mask_out, mask_i, mask_pc>>

tokVars == <<tok_text, tok_lines, tok_lineno, tok_pos, tok_yield, tok_pc>>

nearVars == <<near_file, near_args, near_toks, near_idx, near_out, near_pc>>

poolVars == <<pool_queue, pool_running, pool_results, pool_order>>

cmdNearVars == <<cmd_partials, cmd_merged, cmd_agg>>

cmdCompareVars == <<cmd_rows, cmd_total, cmd_overall_ok, cmd_mismatches>>

cmdVars == <<cmd, cmd_files, cmd_args, cmd_pc, cmd_k, poolVars, cmdNearVars, cmdCompareVars>>

vars == <<levVars, maskVars, tokVars, nearVars, cmdVars>>

\* what the actions of one component leave alone
levOthers == <<maskVars, tokVars, nearVars, cmdVars>>

maskOthers == <<levVars, tokVars, nearVars, cmdVars>>

tokOthers == <<levVars, maskVars, nearVars, cmdVars>>

nearOthers == <<levVars, maskVars, tokVars, cmdVars>>

cmdOthers == <<levVars, maskVars, tokVars, nearVars>>

-----------------------------------------------------------------------------
(* Bounds of the model *)

\* longest string handed to bounded_levenshtein
LevMaxLen == 3
\* largest cutoff k handed to bounded_levenshtein
LevMaxK == 2
\* longest text over MaskAlphabet handed to the masker
MaskMaxLen == 4
\* longest text over RawAlphabet handed to the masker
RawMaxLen == 6
\* longest text handed to the tokenizer
TokMaxLen == 4
\* longest text of the file handed to scan_file_near
NearMaxLen == 3
\* longest needle handed to scan_file_near
NearMaxNeedle == 2
\* largest max_dist handed to scan_file_near
NearMaxDist == 1
\* most files in the file list of a command
CmdMaxFiles == 2
\* most identifiers in one file of that list
CmdMaxWords == 2
\* largest --jobs
CmdMaxJobs == 2

-----------------------------------------------------------------------------
(* Generic helpers *)

Min2(x, y) == IF x <= y THEN x ELSE y

Min3(x, y, z) == Min2(x, Min2(y, z))

Abs(x) == IF x < 0 THEN -x ELSE x

\* all sequences over S of length 0..n
SeqsUpTo(S, n) == UNION {[1..m -> S] : m \in 0..n}

\* s[i] of Python: 0-based indexing
At(s, i) == s[i + 1]

\* s[a:b] of Python, for 0 <= a and b <= len(s)
Slice(s, a, b) == IF a >= b THEN <<>> ELSE SubSeq(s, a + 1, b)

\* a dict as a function; d[k] = v
DictPut(d, k, v) == [x \in (DOMAIN d) \cup {k} |-> IF x = k THEN v ELSE d[x]]

\* the empty dict {}
EmptyDict == <<>>

\* the elements of the sequence s
Range(s) == {s[i] : i \in DOMAIN s}

\* s[:n] of Python, for n >= 0
Take(s, n) == SubSeq(s, 1, Min2(n, Len(s)))

RECURSIVE SumTo(_, _)
\* sum(f[i] for i in 1..n)
SumTo(f, n) == IF n = 0 THEN 0 ELSE f[n] + SumTo(f, n - 1)

-----------------------------------------------------------------------------
(* Edit distance: the textbook definition, used as the oracle *)

RECURSIVE LevRec(_, _, _, _)
\* Levenshtein distance of the prefixes a[1..i] and b[1..j]
LevRec(a, b, i, j) ==
    IF i = 0 THEN j
    ELSE IF j = 0 THEN i
    ELSE IF a[i] = b[j] THEN LevRec(a, b, i - 1, j - 1)
    ELSE 1 + Min3(LevRec(a, b, i - 1, j),
                  LevRec(a, b, i, j - 1),
                  LevRec(a, b, i - 1, j - 1))

trueLevenshtein(a, b) == LevRec(a, b, Len(a), Len(b))

-----------------------------------------------------------------------------
(* bounded_levenshtein, src/Search.py 150-195 *)

LevAlphabet == {"a", "b", "c"}

LevStrings == SeqsUpTo(LevAlphabet, LevMaxLen)

LevIdle ==
    /\ lev_call = <<>>
    /\ lev_a = <<>>
    /\ lev_b = <<>>
    /\ lev_prev = <<>>
    /\ lev_i = 0
    /\ lev_pc = "idle"
    /\ lev_ret = -1
    /\ lev_exit = "none"

LevInit ==
    /\ lev_call \in [a : LevStrings, b : LevStrings, k : 0..LevMaxK]
    /\ lev_a = lev_call.a
    /\ lev_b = lev_call.b
    /\ lev_prev = <<>>
    /\ lev_i = 0
    /\ lev_pc = "start"
    /\ lev_ret = -1
    /\ lev_exit = "none"

\* lines 157-158: identical strings
LevReturnEqual ==
    /\ lev_pc = "start"
    /\ lev_a = lev_b
    /\ lev_ret' = 0
    /\ lev_exit' = "equal"
    /\ lev_pc' = "done"
    /\ UNCHANGED <<lev_call, lev_a, lev_b, lev_prev, lev_i>>
    /\ UNCHANGED levOthers

\* lines 159-161: the length pre-filter
LevLengthFilter(a, b, k) == Abs(Len(a) - Len(b)) > k

LevReturnLength ==
    /\ lev_pc = "start"
    /\ lev_a # lev_b
    /\ LevLengthFilter(lev_a, lev_b, lev_call.k)
    /\ lev_ret' = lev_call.k + 1
    /\ lev_exit' = "length"
    /\ lev_pc' = "done"
    /\ UNCHANGED <<lev_call, lev_a, lev_b, lev_prev, lev_i>>
    /\ UNCHANGED levOthers

\* lines 163-169: make a the shorter one, prev = list(range(nb + 1))
LevSetup ==
    /\ lev_pc = "start"
    /\ lev_a # lev_b
    /\ ~LevLengthFilter(lev_a, lev_b, lev_call.k)
    /\ IF Len(lev_a) > Len(lev_b)
       THEN lev_a' = lev_b /\ lev_b' = lev_a
       ELSE UNCHANGED <<lev_a, lev_b>>
    /\ lev_prev' = [j \in 0..Len(lev_b') |-> j]
    /\ lev_i' = 1
    /\ lev_pc' = "rows"
    /\ UNCHANGED <<lev_call, lev_ret, lev_exit>>
    /\ UNCHANGED levOthers

\* line 172
LevBandStart(i, k) == IF i - k > 1 THEN i - k ELSE 1

\* the band one column too narrow on the right
LevBandEnd_Narrow(i, k, nb) == Min2(nb, i + k - 1)

\* line 173
LevBandEnd(i, k, nb) == Min2(nb, i + k)

\* lines 181-186: one cell of the band
LevCell(prev, cur, ai, bj, j) ==
    LET cost == IF ai = bj THEN 0 ELSE 1
    IN  Min3(prev[j] + 1, cur[j - 1] + 1, prev[j - 1] + cost)

RECURSIVE LevBand(_, _, _, _, _, _, _)
\* lines 180-188: the inner loop over j in start..end; yields cur and row_min
LevBand(prev, cur, row_min, ai, b, j, end) ==
    IF j > end THEN [cur |-> cur, row_min |-> row_min]
    ELSE LET v == LevCell(prev, cur, ai, b[j], j)
         IN  LevBand(prev, [cur EXCEPT ![j] = v],
                     IF v < row_min THEN v ELSE row_min, ai, b, j + 1, end)

\* lines 172-188: row i, from cur = [big] * (nb + 1), cur[0] = i, row_min = big
LevRow(prev, a, b, i, k) ==
    LET big == k + 1
        nb  == Len(b)
        cur == [j \in 0..nb |-> IF j = 0 THEN i ELSE big]
    IN  LevBand(prev, cur, big, a[i], b, LevBandStart(i, k), LevBandEnd(i, k, nb))

\* the early exit taken already when the row's minimum reaches k
LevAbandon_AtBound(row_min, k) == row_min >= k

\* line 190: the early exit of a row
LevAbandon(row_min, k) == row_min > k

\* one iteration of the loop of line 171
LevRowStep ==
    /\ lev_pc = "rows"
    /\ lev_i <= Len(lev_a)
    /\ LET r == LevRow(lev_prev, lev_a, lev_b, lev_i, lev_call.k)
       IN  IF LevAbandon(r.row_min, lev_call.k)
           THEN /\ lev_ret' = lev_call.k + 1
                /\ lev_exit' = "row"
                /\ lev_pc' = "done"
                /\ UNCHANGED <<lev_prev, lev_i>>
           ELSE /\ lev_prev' = r.cur
                /\ lev_i' = lev_i + 1
                /\ UNCHANGED <<lev_ret, lev_exit, lev_pc>>
    /\ UNCHANGED <<lev_call, lev_a, lev_b>>
    /\ UNCHANGED levOthers

\* line 195
LevFinal(prev, nb, k) == IF prev[nb] <= k THEN prev[nb] ELSE k + 1

LevReturnFinal ==
    /\ lev_pc = "rows"
    /\ lev_i > Len(lev_a)
    /\ lev_ret' = LevFinal(lev_prev, Len(lev_b), lev_call.k)
    /\ lev_exit' = "final"
    /\ lev_pc' = "done"
    /\ UNCHANGED <<lev_call, lev_a, lev_b, lev_prev, lev_i>>
    /\ UNCHANGED levOthers

LevNext ==
    \/ LevReturnEqual
    \/ LevReturnLength
    \/ LevSetup
    \/ LevRowStep
    \/ LevReturnFinal

RECURSIVE LevRows(_, _, _, _, _)
\* lines 171-195: the loop from row i on, and the final return
LevRows(a, b, k, prev, i) ==
    IF i > Len(a) THEN LevFinal(prev, Len(b), k)
    ELSE LET r == LevRow(prev, a, b, i, k)
         IN  IF LevAbandon(r.row_min, k) THEN k + 1
             ELSE LevRows(a, b, k, r.cur, i + 1)

\* the whole function: the value a call returns
bounded_levenshtein(a, b, k) ==
    IF a = b THEN 0
    ELSE IF LevLengthFilter(a, b, k) THEN k + 1
    ELSE IF Len(a) > Len(b)
         THEN LevRows(b, a, k, [j \in 0..Len(a) |-> j], 1)
         ELSE LevRows(a, b, k, [j \in 0..Len(b) |-> j], 1)

-----------------------------------------------------------------------------
(* mask_cpp_comments_and_strings, src/Search.py 38-143 *)

\* the characters that start or end a masked region, a letter, the newline
\* and the carriage return, at which str.splitlines also breaks a line
MaskAlphabet == {"/", "*", "\"", "'", "\\", "R", "a", "\n", "\r"}

\* the characters of a raw string literal R"delim( ... )delim"; R is also the
\* delimiter character
RawAlphabet == {"R", "\"", "(", ")", "\n"}

MaskTexts == SeqsUpTo(MaskAlphabet, MaskMaxLen) \cup SeqsUpTo(RawAlphabet, RawMaxLen)

MaskIdle ==
    /\ mask_src = <<>>
    /\ mask_out = <<>>
    /\ mask_i = 0
    /\ mask_pc = "idle"

\* lines 51-53
MaskInit ==
    /\ mask_src \in MaskTexts
    /\ mask_out = mask_src
    /\ mask_i = 0
    /\ mask_pc = "loop"

\* put_spaces without the test of line 58
put_spaces_AlsoNewlines(out, a, b) ==
    [p \in 1..Len(out) |-> IF a <= p - 1 /\ p - 1 < b THEN " " ELSE out[p]]

\* lines 55-59: replace [a, b) with spaces except keep '\n'
put_spaces(out, a, b) ==
    [p \in 1..Len(out) |->
        IF a <= p - 1 /\ p - 1 < b /\ out[p] # "\n" THEN " " ELSE out[p]]

RECURSIVE LineCommentEnd(_, _)
\* lines 69-70: while i < n and src[i] != "\n": i += 1
LineCommentEnd(src, i) ==
    IF i < Len(src) /\ At(src, i) # "\n" THEN LineCommentEnd(src, i + 1) ELSE i

RECURSIVE BlockCommentScan(_, _)
\* lines 78-79: while i + 1 < n and not (src[i] == "*" and src[i+1] == "/"): i += 1
BlockCommentScan(src, i) ==
    IF i + 1 < Len(src) /\ ~(At(src, i) = "*" /\ At(src, i + 1) = "/")
    THEN BlockCommentScan(src, i + 1)
    ELSE i

\* the position where the scan stopped, without line 80
BlockCommentEnd_NoClosing(src, i) == BlockCommentScan(src, i + 2)

\* lines 77-80: the position after the block comment opened at i
BlockCommentEnd(src, i) == Min2(Len(src), BlockCommentScan(src, i + 2) + 2)

RECURSIVE LiteralScan(_, _, _)
\* lines 88-95 and 103-110: the loop of a string or char literal closed by q
LiteralScan(src, i, q) ==
    IF i >= Len(src) THEN i
    ELSE IF At(src, i) = "\\" /\ i + 1 < Len(src) THEN LiteralScan(src, i + 2, q)
    ELSE IF At(src, i) = q THEN i + 1
    ELSE LiteralScan(src, i + 1, q)

\* lines 86-95: the position after the literal opened at i
LiteralEnd(src, i, q) == LiteralScan(src, i + 1, q)

RECURSIVE RawDelimEnd(_, _)
\* lines 121-124: while i < n and src[i] != "(": i += 1
RawDelimEnd(src, i) ==
    IF i < Len(src) /\ At(src, i) # "(" THEN RawDelimEnd(src, i + 1) ELSE i

\* str.find(sub, start): the lowest index >= start where sub occurs, or -1
Find(src, sub, start) ==
    LET hits == {p \in start..(Len(src) - Len(sub)) :
                    Slice(src, p, p + Len(sub)) = sub}
    IN  IF hits = {} THEN -1 ELSE CHOOSE p \in hits : \A q \in hits : p <= q

\* lines 129-133: close_pos for the raw string whose '(' is at position paren
RawClosePos(src, delim_start, paren) ==
    LET delim     == Slice(src, delim_start, paren)
        close_seq == <<")">> \o delim \o <<"\"">>
    IN  Find(src, close_seq, paren + 1)

\* line 137: the position after the closing sequence found at close_pos
RawEnd(delim_start, paren, close_pos) == close_pos + (paren - delim_start) + 2

IsLineComment(src, i) ==
    At(src, i) = "/" /\ i + 1 < Len(src) /\ At(src, i + 1) = "/"

IsBlockComment(src, i) ==
    At(src, i) = "/" /\ i + 1 < Len(src) /\ At(src, i + 1) = "*"

IsRawString(src, i) ==
    At(src, i) = "R" /\ i + 1 < Len(src) /\ At(src, i + 1) = "\""

\* lines 64-72
MaskLineComment ==
    /\ mask_pc = "loop"
    /\ mask_i < Len(mask_src)
    /\ IsLineComment(mask_src, mask_i)
    /\ LET e == LineCommentEnd(mask_src, mask_i + 2)
       IN  /\ mask_out' = put_spaces(mask_out, mask_i, e)
           /\ mask_i' = e
    /\ UNCHANGED <<mask_src, mask_pc>>
    /\ UNCHANGED maskOthers

\* lines 74-82
MaskBlockComment ==
    /\ mask_pc = "loop"
    /\ mask_i < Len(mask_src)
    /\ ~IsLineComment(mask_src, mask_i)
    /\ IsBlockComment(mask_src, mask_i)
    /\ LET e == BlockCommentEnd(mask_src, mask_i)
       IN  /\ mask_out' = put_spaces(mask_out, mask_i, e)
           /\ mask_i' = e
    /\ UNCHANGED <<mask_src, mask_pc>>
    /\ UNCHANGED maskOthers

\* lines 84-97
MaskString ==
    /\ mask_pc = "loop"
    /\ mask_i < Len(mask_src)
    /\ At(mask_src, mask_i) = "\""
    /\ LET e == LiteralEnd(mask_src, mask_i, "\"")
       IN  /\ mask_out' = put_spaces(mask_out, mask_i, e)
           /\ mask_i' = e
    /\ UNCHANGED <<mask_src, mask_pc>>
    /\ UNCHANGED maskOthers

\* lines 99-112
MaskCharLiteral ==
    /\ mask_pc = "loop"
    /\ mask_i < Len(mask_src)
    /\ At(mask_src, mask_i) = "'"
    /\ LET e == LiteralEnd(mask_src, mask_i, "'")
       IN  /\ mask_out' = put_spaces(mask_out, mask_i, e)
           /\ mask_i' = e
    /\ UNCHANGED <<mask_src, mask_pc>>
    /\ UNCHANGED maskOthers

\* lines 114-139
MaskRawString ==
    /\ mask_pc = "loop"
    /\ mask_i < Len(mask_src)
    /\ IsRawString(mask_src, mask_i)
    /\ LET n           == Len(mask_src)
           delim_start == mask_i + 2
           paren       == RawDelimEnd(mask_src, delim_start)
           close_pos   == RawClosePos(mask_src, delim_start, paren)
       IN  IF paren >= n
           THEN \* lines 125-128: malformed, mask rest
                /\ mask_out' = put_spaces(mask_out, mask_i, n)
                /\ mask_i' = paren
                /\ mask_pc' = "break"
           ELSE IF close_pos = -1
           THEN \* lines 134-136
                /\ mask_out' = put_spaces(mask_out, mask_i, n)
                /\ mask_i' = paren + 1
                /\ mask_pc' = "break"
           ELSE \* lines 137-139
                /\ mask_out' = put_spaces(mask_out, mask_i, RawEnd(delim_start, paren, close_pos))
                /\ mask_i' = RawEnd(delim_start, paren, close_pos)
                /\ UNCHANGED mask_pc
    /\ UNCHANGED mask_src
    /\ UNCHANGED maskOthers

\* line 141: any other character
MaskSkip ==
    /\ mask_pc = "loop"
    /\ mask_i < Len(mask_src)
    /\ ~IsLineComment(mask_src, mask_i)
    /\ ~IsBlockComment(mask_src, mask_i)
    /\ At(mask_src, mask_i) \notin {"\"", "'"}
    /\ ~IsRawString(mask_src, mask_i)
    /\ mask_i' = mask_i + 1
    /\ UNCHANGED <<mask_src, mask_out, mask_pc>>
    /\ UNCHANGED maskOthers

\* line 143: the loop has ended (line 61) or was left by a break
MaskReturn ==
    /\ \/ mask_pc = "loop" /\ mask_i >= Len(mask_src)
       \/ mask_pc = "break"
    /\ mask_pc' = "done"
    /\ UNCHANGED <<mask_src, mask_out, mask_i>>
    /\ UNCHANGED maskOthers

MaskNext ==
    \/ MaskLineComment
    \/ MaskBlockComment
    \/ MaskString
    \/ MaskCharLiteral
    \/ MaskRawString
    \/ MaskSkip
    \/ MaskReturn

\* the whole function: the masked text of src
RECURSIVE MaskLoop(_, _, _)
MaskLoop(src, out, i) ==
    IF i >= Len(src) THEN out
    ELSE IF IsLineComment(src, i)
         THEN LET e == LineCommentEnd(src, i + 2)
              IN  MaskLoop(src, put_spaces(out, i, e), e)
    ELSE IF IsBlockComment(src, i)
         THEN LET e == BlockCommentEnd(src, i)
              IN  MaskLoop(src, put_spaces(out, i, e), e)
    ELSE IF At(src, i) \in {"\"", "'"}
         THEN LET e == LiteralEnd(src, i, At(src, i))
              IN  MaskLoop(src, put_spaces(out, i, e), e)
    ELSE IF IsRawString(src, i)
         THEN LET paren     == RawDelimEnd(src, i + 2)
                  close_pos == RawClosePos(src, i + 2, paren)
                  e         == RawEnd(i + 2, paren, close_pos)
              IN  IF paren >= Len(src) \/ close_pos = -1
                  THEN put_spaces(out, i, Len(src))
                  ELSE MaskLoop(src, put_spaces(out, i, e), e)
    ELSE MaskLoop(src, out, i + 1)

mask_cpp_comments_and_strings(src) == MaskLoop(src, src, 0)

-----------------------------------------------------------------------------
(* Character classes *)

AsciiLower ==
    {"a", "b", "c", "d", "e", "f", "g", "h", "i", "j", "k", "l", "m",
     "n", "o", "p", "q", "r", "s", "t", "u", "v", "w", "x", "y", "z"}

AsciiUpper ==
    {"A", "B", "C", "D", "E", "F", "G", "H", "I", "J", "K", "L", "M",
     "N", "O", "P", "Q", "R", "S", "T", "U", "V", "W", "X", "Y", "Z"}

AsciiDigits == {"0", "1", "2", "3", "4", "5", "6", "7", "8", "9"}

\* a letter outside ASCII, written by its code point: a word character for
\* \b of a str pattern, and in neither character class of IDENT_RE
NonAsciiWord == {"U+00E9"}

\* [_A-Za-z] of IDENT_RE, line 31
IsIdentStart(c) == c \in AsciiLower \cup AsciiUpper \cup {"_"}

\* [_A-Za-z0-9] of IDENT_RE, line 31
IsIdentChar(c) == IsIdentStart(c) \/ c \in AsciiDigits

\* \w, as \b of IDENT_RE (a str pattern) sees it
IsWord(c) == IsIdentChar(c) \/ c \in NonAsciiWord

-----------------------------------------------------------------------------
(* iter_identifiers_with_pos, src/Search.py 272-278, and IDENT_RE, line 31 *)

TokAlphabet == {"a", "_", "1", "U+00E9", " ", "\n", "\r"}

TokTexts == SeqsUpTo(TokAlphabet, TokMaxLen)

RECURSIVE SplitLoop(_, _, _, _)
\* str.splitlines: text is cut after "\n", "\r" and "\r\n" (one break); the
\* breaks are dropped and a trailing break opens no further line.
\* i is the 0-based position, start the start of the current line.
SplitLoop(text, i, start, lines) ==
    IF i >= Len(text)
    THEN IF start < Len(text) THEN Append(lines, Slice(text, start, i)) ELSE lines
    ELSE IF At(text, i) = "\r" /\ i + 1 < Len(text) /\ At(text, i + 1) = "\n"
         THEN SplitLoop(text, i + 2, i + 2, Append(lines, Slice(text, start, i)))
    ELSE IF At(text, i) \in {"\n", "\r"}
         THEN SplitLoop(text, i + 1, i + 1, Append(lines, Slice(text, start, i)))
    ELSE SplitLoop(text, i + 1, start, lines)

\* line 276: text.splitlines()
splitlines(text) == SplitLoop(text, 0, 0, <<>>)

\* \b at position p of line: exactly one side is a word character
WordBoundary(line, p) ==
    LET before == p > 0 /\ IsWord(At(line, p - 1))
        after  == p < Len(line) /\ IsWord(At(line, p))
    IN  before # after

RECURSIVE IdentRunEnd(_, _)
\* [_A-Za-z0-9]* taken greedily from position p
IdentRunEnd(line, p) ==
    IF p < Len(line) /\ IsIdentChar(At(line, p)) THEN IdentRunEnd(line, p + 1) ELSE p

\* \b[_A-Za-z] without the leading \b
IdentMatchStart_NoBoundary(line, s) ==
    s < Len(line) /\ IsIdentStart(At(line, s))

\* \b[_A-Za-z] of IDENT_RE matches at position s
IdentMatchStart(line, s) ==
    s < Len(line) /\ WordBoundary(line, s) /\ IsIdentStart(At(line, s))

\* IDENT_RE matched at position s: the end of the match, or -1.  The star is
\* greedy and gives characters back until the closing \b holds.
IdentMatchAt(line, s) ==
    IF ~IdentMatchStart(line, s) THEN -1
    ELSE LET ends == {e \in (s + 1)..IdentRunEnd(line, s + 1) : WordBoundary(line, e)}
         IN  IF ends = {} THEN -1
             ELSE CHOOSE e \in ends : \A f \in ends : f <= e

RECURSIVE IdentSearch(_, _)
\* one step of IDENT_RE.finditer(line) from position pos: the next match
\* [s, e), or s = -1 when the line holds no further match
IdentSearch(line, pos) ==
    IF pos >= Len(line) THEN [s |-> -1, e |-> -1]
    ELSE IF IdentMatchAt(line, pos) # -1 THEN [s |-> pos, e |-> IdentMatchAt(line, pos)]
    ELSE IdentSearch(line, pos + 1)

TokIdle ==
    /\ tok_text = <<>>
    /\ tok_lines = <<>>
    /\ tok_lineno = 0
    /\ tok_pos = 0
    /\ tok_yield = <<>>
    /\ tok_pc = "idle"

TokInit ==
    /\ tok_text \in TokTexts
    /\ tok_lines = <<>>
    /\ tok_lineno = 0
    /\ tok_pos = 0
    /\ tok_yield = <<>>
    /\ tok_pc = "start"

\* line 276: the text is split and enumerate starts at 1
TokSplit ==
    /\ tok_pc = "start"
    /\ tok_lines' = splitlines(tok_text)
    /\ tok_lineno' = 1
    /\ tok_pos' = 0
    /\ tok_pc' = "lines"
    /\ UNCHANGED <<tok_text, tok_yield>>
    /\ UNCHANGED tokOthers

\* lines 277-278: the next match of the line is yielded
TokYield ==
    /\ tok_pc = "lines"
    /\ tok_lineno <= Len(tok_lines)
    /\ LET line == tok_lines[tok_lineno]
           m    == IdentSearch(line, tok_pos)
       IN  /\ m.s # -1
           /\ tok_yield' = Append(tok_yield,
                  [tok |-> Slice(line, m.s, m.e), line |-> tok_lineno, col |-> m.s + 1])
           /\ tok_pos' = m.e
    /\ UNCHANGED <<tok_text, tok_lines, tok_lineno, tok_pc>>
    /\ UNCHANGED tokOthers

\* lines 276-277: the line holds no further match; on to the next line
TokNextLine ==
    /\ tok_pc = "lines"
    /\ tok_lineno <= Len(tok_lines)
    /\ IdentSearch(tok_lines[tok_lineno], tok_pos).s = -1
    /\ tok_lineno' = tok_lineno + 1
    /\ tok_pos' = 0
    /\ UNCHANGED <<tok_text, tok_lines, tok_yield, tok_pc>>
    /\ UNCHANGED tokOthers

\* line 276: the lines are exhausted and the generator ends
TokStop ==
    /\ tok_pc = "lines"
    /\ tok_lineno > Len(tok_lines)
    /\ tok_pc' = "done"
    /\ UNCHANGED <<tok_text, tok_lines, tok_lineno, tok_pos, tok_yield>>
    /\ UNCHANGED tokOthers

TokNext ==
    \/ TokSplit
    \/ TokYield
    \/ TokNextLine
    \/ TokStop

RECURSIVE LineTokens(_, _, _, _)
\* line 277-278 for one line: every match from pos on, appended to acc
LineTokens(line, lineno, pos, acc) ==
    LET m == IdentSearch(line, pos)
    IN  IF m.s = -1 THEN acc
        ELSE LineTokens(line, lineno, m.e,
                 Append(acc, [tok |-> Slice(line, m.s, m.e), line |-> lineno, col |-> m.s + 1]))

RECURSIVE AllLineTokens(_, _, _)
AllLineTokens(lines, lineno, acc) ==
    IF lineno > Len(lines) THEN acc
    ELSE AllLineTokens(lines, lineno + 1, LineTokens(lines[lineno], lineno, 0, acc))

\* the whole generator: the list of the triples it yields
iter_identifiers_with_pos(text) == AllLineTokens(splitlines(text), 1, <<>>)

-----------------------------------------------------------------------------
(* Data structures, src/Search.py 244-265, and str.lower *)

\* Occurrence, lines 244-248
Occurrence(path, line, col) == [path |-> path, line |-> line, col |-> col]

\* NearTokenAggregate, lines 251-255
NearTokenAggregate(token, count, locs) ==
    [token |-> token, count |-> count, locs |-> locs]

\* str.lower on one ASCII character
LowerChar(c) ==
    IF c \in AsciiUpper
    THEN ("A" :> "a" @@ "B" :> "b" @@ "C" :> "c" @@ "D" :> "d" @@ "E" :> "e" @@
          "F" :> "f" @@ "G" :> "g" @@ "H" :> "h" @@ "I" :> "i" @@ "J" :> "j" @@
          "K" :> "k" @@ "L" :> "l" @@ "M" :> "m" @@ "N" :> "n" @@ "O" :> "o" @@
          "P" :> "p" @@ "Q" :> "q" @@ "R" :> "r" @@ "S" :> "s" @@ "T" :> "t" @@
          "U" :> "u" @@ "V" :> "v" @@ "W" :> "w" @@ "X" :> "x" @@ "Y" :> "y" @@
          "Z" :> "z")[c]
    ELSE c

\* str.lower
lower(str) == [p \in 1..Len(str) |-> LowerChar(str[p])]

\* t.lower() if case_insensitive else t, lines 313, 314, 319
CaseNorm(str, case_insensitive) == IF case_insensitive THEN lower(str) ELSE str

-----------------------------------------------------------------------------
(* scan_file_near, src/Search.py 289-343 *)

\* two letters that differ by case only, and the quote, which opens a string
\* literal and separates identifiers
NearAlphabet == {"a", "A", "\""}

NearNeedleAlphabet == {"a", "A"}

NearFiles ==
    {[path |-> "f", readable |-> TRUE, text |-> t] : t \in SeqsUpTo(NearAlphabet, NearMaxLen)}
    \cup {[path |-> "f", readable |-> FALSE, text |-> <<>>]}

NearArgs ==
    [needle             : SeqsUpTo(NearNeedleAlphabet, NearMaxNeedle),
     max_dist           : 0..NearMaxDist,
     case_insensitive   : BOOLEAN,
     same_first_char    : BOOLEAN,
     ignore_tokens      : {<<>>, << <<"A">> >>},
     max_locs_per_token : {0, 1},
     mask               : BOOLEAN]

\* lines 310-311 and 318: the triples the loop of the scan runs over
ScanTokens(text, mask) ==
    iter_identifiers_with_pos(IF mask THEN mask_cpp_comments_and_strings(text) ELSE text)

\* line 313
NeedleCmp(args) == CaseNorm(args.needle, args.case_insensitive)

\* line 314
IgnoreSet(args) ==
    {CaseNorm(args.ignore_tokens[p], args.case_insensitive) :
        p \in 1..Len(args.ignore_tokens)}

\* line 321
NearIgnored(tcmp, args) == tcmp \in IgnoreSet(args)

\* lines 324-326
NearFirstCharSkip(tcmp, ncmp, args) ==
    args.same_first_char /\ (tcmp = <<>> \/ ncmp = <<>> \/ tcmp[1] # ncmp[1])

\* the length filter dropping a difference equal to max_dist as well
NearLengthSkip_AtBound(tcmp, ncmp, args) == Abs(Len(tcmp) - Len(ncmp)) >= args.max_dist

\* lines 328-329
NearLengthSkip(tcmp, ncmp, args) == Abs(Len(tcmp) - Len(ncmp)) > args.max_dist

\* lines 333-341: one hit of token tok at distance d is recorded in out
NearRecord(out, d, tok, occ, max_locs_per_token) ==
    LET bucket == IF d \in DOMAIN out THEN out[d] ELSE EmptyDict
        agg    == IF tok \in DOMAIN bucket THEN bucket[tok]
                  ELSE NearTokenAggregate(tok, 0, <<>>)
        locs   == IF max_locs_per_token = 0 \/ Len(agg.locs) < max_locs_per_token
                  THEN Append(agg.locs, occ)
                  ELSE agg.locs
    IN  DictPut(out, d, DictPut(bucket, tok, NearTokenAggregate(tok, agg.count + 1, locs)))

\* what the body of the loop of line 318 does with one triple:
\* "ignored" | "first_char" | "length" | "too_far" | "hit"
NearVerdict(t, args) ==
    LET tcmp == CaseNorm(t.tok, args.case_insensitive)
        ncmp == NeedleCmp(args)
    IN  IF NearIgnored(tcmp, args) THEN "ignored"
        ELSE IF NearFirstCharSkip(tcmp, ncmp, args) THEN "first_char"
        ELSE IF NearLengthSkip(tcmp, ncmp, args) THEN "length"
        ELSE IF bounded_levenshtein(tcmp, ncmp, args.max_dist) <= args.max_dist THEN "hit"
        ELSE "too_far"

\* lines 319-341: the body of the loop for one triple
NearBody(out, t, path, args) ==
    IF NearVerdict(t, args) = "hit"
    THEN NearRecord(out,
             bounded_levenshtein(CaseNorm(t.tok, args.case_insensitive),
                                 NeedleCmp(args), args.max_dist),
             t.tok, Occurrence(path, t.line, t.col), args.max_locs_per_token)
    ELSE out

RECURSIVE NearLoop(_, _, _, _, _)
\* lines 316-343
NearLoop(out, toks, idx, path, args) ==
    IF idx > Len(toks) THEN out
    ELSE NearLoop(NearBody(out, toks[idx], path, args), toks, idx + 1, path, args)

\* the whole function: the dict a call returns
scan_file_near(file, args) ==
    IF ~file.readable THEN EmptyDict
    ELSE NearLoop(EmptyDict, ScanTokens(file.text, args.mask), 1, file.path, args)

NearIdle ==
    /\ near_file = <<>>
    /\ near_args = <<>>
    /\ near_toks = <<>>
    /\ near_idx = 0
    /\ near_out = <<>>
    /\ near_pc = "idle"

NearInit ==
    /\ near_file \in NearFiles
    /\ near_args \in NearArgs
    /\ near_toks = <<>>
    /\ near_idx = 0
    /\ near_out = <<>>
    /\ near_pc = "start"

\* lines 305-308: load_text raises and the scan returns {}
NearReadFails ==
    /\ near_pc = "start"
    /\ ~near_file.readable
    /\ near_out' = EmptyDict
    /\ near_pc' = "done"
    /\ UNCHANGED <<near_file, near_args, near_toks, near_idx>>
    /\ UNCHANGED nearOthers

\* lines 305-318: the text is read, masked if asked, and tokenized
NearBegin ==
    /\ near_pc = "start"
    /\ near_file.readable
    /\ near_toks' = ScanTokens(near_file.text, near_args.mask)
    /\ near_idx' = 1
    /\ near_out' = EmptyDict
    /\ near_pc' = "loop"
    /\ UNCHANGED <<near_file, near_args>>
    /\ UNCHANGED nearOthers

\* one iteration of the loop of line 318
NearIterate ==
    /\ near_pc = "loop"
    /\ near_idx <= Len(near_toks)
    /\ near_out' = NearBody(near_out, near_toks[near_idx], near_file.path, near_args)
    /\ near_idx' = near_idx + 1
    /\ UNCHANGED <<near_file, near_args, near_toks, near_pc>>
    /\ UNCHANGED nearOthers

\* the verdict on the triple the loop is at
NearAt(v) ==
    /\ near_pc = "loop"
    /\ near_idx <= Len(near_toks)
    /\ NearVerdict(near_toks[near_idx], near_args) = v

\* lines 321-322
NearSkipIgnored ==
    /\ NearAt("ignored")
    /\ NearIterate

\* lines 324-326
NearSkipFirstChar ==
    /\ NearAt("first_char")
    /\ NearIterate

\* lines 328-329
NearSkipLength ==
    /\ NearAt("length")
    /\ NearIterate

\* lines 331-332, d > max_dist
NearTooFar ==
    /\ NearAt("too_far")
    /\ NearIterate

\* lines 331-341
NearHit ==
    /\ NearAt("hit")
    /\ NearIterate

\* line 343
NearReturn ==
    /\ near_pc = "loop"
    /\ near_idx > Len(near_toks)
    /\ near_pc' = "done"
    /\ UNCHANGED <<near_file, near_args, near_toks, near_idx, near_out>>
    /\ UNCHANGED nearOthers

NearNext ==
    \/ NearReadFails
    \/ NearBegin
    \/ NearSkipIgnored
    \/ NearSkipFirstChar
    \/ NearSkipLength
    \/ NearTooFar
    \/ NearHit
    \/ NearReturn

-----------------------------------------------------------------------------
(* scan_file_compare, src/Search.py 350-389 *)

\* CompareFileRow, lines 258-265
CompareFileRow(path, count_a, count_b, diff, locs_a, locs_b) ==
    [path |-> path, count_a |-> count_a, count_b |-> count_b, diff |-> diff,
     locs_a |-> locs_a, locs_b |-> locs_b]

\* lines 382-383 and 386-387: the occurrence is recorded if under the cap
CompareLocs(locs, occ, locs_per_file) ==
    IF locs_per_file = 0 \/ Len(locs) < locs_per_file THEN Append(locs, occ) ELSE locs

\* the body with "if tcmp == bcmp" in place of "elif"
CompareBody_BothCounted(acc, t, path, args) ==
    LET tcmp == CaseNorm(t.tok, args.case_insensitive)
        acmp == CaseNorm(args.a, args.case_insensitive)
        bcmp == CaseNorm(args.b, args.case_insensitive)
        occ  == Occurrence(path, t.line, t.col)
        isA  == tcmp = acmp
        isB  == tcmp = bcmp
    IN  [ca |-> IF isA THEN acc.ca + 1 ELSE acc.ca,
         cb |-> IF isB THEN acc.cb + 1 ELSE acc.cb,
         la |-> IF isA THEN CompareLocs(acc.la, occ, args.locs_per_file) ELSE acc.la,
         lb |-> IF isB THEN CompareLocs(acc.lb, occ, args.locs_per_file) ELSE acc.lb]

\* lines 379-387: the body of the loop for one triple; acc is (ca, cb, la, lb)
CompareBody(acc, t, path, args) ==
    LET tcmp == CaseNorm(t.tok, args.case_insensitive)
        acmp == CaseNorm(args.a, args.case_insensitive)
        bcmp == CaseNorm(args.b, args.case_insensitive)
        occ  == Occurrence(path, t.line, t.col)
    IN  IF tcmp = acmp
        THEN [acc EXCEPT !.ca = @ + 1,
                         !.la = CompareLocs(@, occ, args.locs_per_file)]
        ELSE IF tcmp = bcmp
        THEN [acc EXCEPT !.cb = @ + 1,
                         !.lb = CompareLocs(@, occ, args.locs_per_file)]
        ELSE acc

RECURSIVE CompareLoop(_, _, _, _, _)
\* lines 371-387
CompareLoop(acc, toks, idx, path, args) ==
    IF idx > Len(toks) THEN acc
    ELSE CompareLoop(CompareBody(acc, toks[idx], path, args), toks, idx + 1, path, args)

\* the whole function: the row a call returns
scan_file_compare(file, args) ==
    IF ~file.readable
    THEN CompareFileRow(file.path, 0, 0, 0, <<>>, <<>>)
    ELSE LET acc == CompareLoop([ca |-> 0, cb |-> 0, la |-> <<>>, lb |-> <<>>],
                                ScanTokens(file.text, args.mask), 1, file.path, args)
         IN  CompareFileRow(file.path, acc.ca, acc.cb, acc.ca - acc.cb, acc.la, acc.lb)

-----------------------------------------------------------------------------
(* check_expectation, src/Search.py 539-549 *)

\* "a>=b" with the sign of the tolerance lost
check_expectation_SignSlip(row, expect, ratio, tolerance) ==
    IF expect = "equal" THEN Abs(row.diff) <= tolerance
    ELSE IF expect = "a>=b" THEN row.diff >= tolerance
    ELSE IF expect = "b>=a" THEN row.diff <= tolerance
    ELSE Abs(row.count_a * ratio.den - ratio.num * row.count_b) <= tolerance * ratio.den

\* ratio is the float num/den with den a power of two, so that
\* target = ratio * row.count_b and row.count_a - target are exact and
\* abs(row.count_a - target) <= tolerance is the comparison of integers below
check_expectation(row, expect, ratio, tolerance) ==
    IF expect = "equal" THEN Abs(row.diff) <= tolerance
    ELSE IF expect = "a>=b" THEN row.diff >= -tolerance
    ELSE IF expect = "b>=a" THEN row.diff <= tolerance
    ELSE Abs(row.count_a * ratio.den - ratio.num * row.count_b) <= tolerance * ratio.den

-----------------------------------------------------------------------------
(* The merge of cmd_near, src/Search.py 582-595 and 602-615 *)

\* the merge with "cur.count += a.count" moved under "if remain > 0"
MergeToken_CountUnderCap(cur, a, max_locs_per_token) ==
    IF max_locs_per_token = 0
    THEN NearTokenAggregate(cur.token, cur.count + a.count, cur.locs \o a.locs)
    ELSE LET remain == max_locs_per_token - Len(cur.locs)
         IN  IF remain > 0
             THEN NearTokenAggregate(cur.token, cur.count + a.count,
                                     cur.locs \o Take(a.locs, remain))
             ELSE cur

\* the merge that extends cur.locs by all of a.locs whenever it is under the cap
MergeToken_NoSlice(cur, a, max_locs_per_token) ==
    LET remain == max_locs_per_token - Len(cur.locs)
    IN  NearTokenAggregate(cur.token, cur.count + a.count,
            IF max_locs_per_token = 0 \/ remain > 0 THEN cur.locs \o a.locs ELSE cur.locs)

\* lines 589-595 (609-615): aggregate a is merged into the aggregate cur
MergeToken(cur, a, max_locs_per_token) ==
    LET remain == max_locs_per_token - Len(cur.locs)
        locs   == IF max_locs_per_token = 0 THEN cur.locs \o a.locs
                  ELSE IF remain > 0 THEN cur.locs \o Take(a.locs, remain)
                  ELSE cur.locs
    IN  NearTokenAggregate(cur.token, cur.count + a.count, locs)

\* lines 584-595 (604-615): token_map is merged into bucket
MergeBucket(bucket, token_map, max_locs_per_token) ==
    [tok \in (DOMAIN bucket) \cup (DOMAIN token_map) |->
        IF tok \notin DOMAIN token_map THEN bucket[tok]
        ELSE IF tok \notin DOMAIN bucket
             THEN NearTokenAggregate(tok, token_map[tok].count, token_map[tok].locs)
        ELSE MergeToken(bucket[tok], token_map[tok], max_locs_per_token)]

\* lines 582-595 (602-615): partial is merged into agg
MergePartial(agg, partial, max_locs_per_token) ==
    [d \in (DOMAIN agg) \cup (DOMAIN partial) |->
        IF d \notin DOMAIN partial THEN agg[d]
        ELSE MergeBucket(IF d \in DOMAIN agg THEN agg[d] ELSE EmptyDict,
                         partial[d], max_locs_per_token)]

RECURSIVE NearFold(_, _, _, _)
\* lines 597-615: the sequential loop over files from position k on
NearFold(agg, files, k, args) ==
    IF k > Len(files) THEN agg
    ELSE NearFold(MergePartial(agg, scan_file_near(files[k], args), args.max_locs_per_token),
                  files, k + 1, args)

-----------------------------------------------------------------------------
(* main, cmd_near and cmd_compare, src/Search.py 553-615, 672-723, 777-786 *)

RECURSIVE JoinLines(_)
\* the text with the identifiers words on a line each
JoinLines(words) ==
    IF words = <<>> THEN <<>>
    ELSE IF Len(words) = 1 THEN words[1]
    ELSE words[1] \o <<"\n">> \o JoinLines(Tail(words))

\* what a file of the list may hold: one of the identifiers words up to
\* CmdMaxWords times, or each of them once, or nothing readable
CmdContents(words) ==
    {[readable |-> TRUE, text |-> JoinLines([i \in 1..n |-> w])] :
        n \in 0..CmdMaxWords, w \in Range(words)}
    \cup {[readable |-> TRUE, text |-> JoinLines(words)]}
    \cup {[readable |-> FALSE, text |-> <<>>]}

\* the file lists: file i has the path i
CmdFileLists(words) ==
    {[i \in 1..Len(c) |-> [path |-> i, readable |-> c[i].readable, text |-> c[i].text]] :
        c \in SeqsUpTo(CmdContents(words), CmdMaxFiles)}

\* the identifiers of the files of a near run: at distance 0 and 1 of the needle
CmdNearWords == << <<"a">>, <<"a", "a">> >>

CmdNearArgs ==
    [needle             : {<<"a">>},
     max_dist           : {1},
     case_insensitive   : {FALSE},
     same_first_char    : {FALSE},
     ignore_tokens      : {<<>>},
     max_locs_per_token : {0, 1, 2},
     mask               : {TRUE},
     jobs               : 1..CmdMaxJobs]

\* the identifiers of the files of a compare run
CmdCompareWords == << <<"a">>, <<"b">> >>

\* --expect and, for ratio, --ratio (1/2, 1 or 2; 1.0 is the default)
CmdExpectations ==
    [expect : {"equal", "a>=b", "b>=a"}, ratio : {[num |-> 1, den |-> 1]}]
    \cup [expect : {"ratio"},
          ratio  : {[num |-> 1, den |-> 2], [num |-> 1, den |-> 1], [num |-> 2, den |-> 1]}]

\* the options of the scan in every combination, with the default expectation
CmdCompareScanArgs ==
    {[a |-> <<"a">>, b |-> b, case_insensitive |-> ci, locs_per_file |-> l, mask |-> TRUE,
      expect |-> "equal", ratio |-> [num |-> 1, den |-> 1], tolerance |-> 0, jobs |-> j] :
        b \in {<<"b">>, <<"A">>}, ci \in BOOLEAN, l \in {0, 1}, j \in 1..CmdMaxJobs}

\* the options of the expectation in every combination, over one sequential
\* scan; the scan reads none of them
CmdCompareExpectArgs ==
    {[a |-> <<"a">>, b |-> <<"b">>, case_insensitive |-> FALSE, locs_per_file |-> 0,
      mask |-> TRUE, expect |-> e.expect, ratio |-> e.ratio, tolerance |-> t, jobs |-> 1] :
        e \in CmdExpectations, t \in {0, 1}}

CmdCompareArgs == CmdCompareScanArgs \cup CmdCompareExpectArgs

CmdIdle ==
    /\ cmd = "none"
    /\ cmd_files = <<>>
    /\ cmd_args = <<>>
    /\ cmd_pc = "idle"
    /\ cmd_k = 0
    /\ pool_queue = <<>>
    /\ pool_running = {}
    /\ pool_results = <<>>
    /\ pool_order = <<>>
    /\ cmd_partials = <<>>
    /\ cmd_merged = <<>>
    /\ cmd_agg = <<>>
    /\ cmd_rows = <<>>
    /\ cmd_total = <<>>
    /\ cmd_overall_ok = FALSE
    /\ cmd_mismatches = <<>>

\* the state in which a command starts; lines 568 and 690
CmdBegin ==
    /\ cmd_pc = "start"
    /\ cmd_k = 0
    /\ pool_queue = <<>>
    /\ pool_running = {}
    /\ pool_results = EmptyDict
    /\ pool_order = <<>>
    /\ cmd_partials = <<>>
    /\ cmd_merged = <<>>
    /\ cmd_agg = EmptyDict
    /\ cmd_rows = <<>>
    /\ cmd_total = <<>>
    /\ cmd_overall_ok = FALSE
    /\ cmd_mismatches = <<>>

\* lines 781-782 and 553-568
CmdNearInit ==
    /\ cmd = "near"
    /\ cmd_files \in CmdFileLists(CmdNearWords)
    /\ cmd_args \in CmdNearArgs
    /\ CmdBegin

\* lines 783-784 and 672-690
CmdCompareInit ==
    /\ cmd = "compare"
    /\ cmd_files \in CmdFileLists(CmdCompareWords)
    /\ cmd_args \in CmdCompareArgs
    /\ CmdBegin

\* an exception leaves scan_file_near or scan_file_compare whenever the file
\* cannot be read
ScanRaises_Uncaught(file) == ~file.readable

\* lines 305-308 and 360-363: "except Exception" catches what load_text
\* raises, so no exception leaves the scan of a file
ScanRaises(file) == FALSE

\* the function the command maps over its files
ScanResult(file) ==
    IF cmd = "near" THEN scan_file_near(file, cmd_args)
    ELSE scan_file_compare(file, cmd_args)

\* lines 570 and 692: "if args.jobs and args.jobs >= 2"
UsesPool(args) == args.jobs # 0 /\ args.jobs >= 2

\* lines 570, 596-597 and 692, 700-701: the sequential loop is entered
CmdStartSequential ==
    /\ cmd_pc = "start"
    /\ ~UsesPool(cmd_args)
    /\ cmd_pc' = "seq"
    /\ cmd_k' = 1
    /\ UNCHANGED <<cmd, cmd_files, cmd_args, poolVars, cmdNearVars, cmdCompareVars>>
    /\ UNCHANGED cmdOthers

\* lines 570-581 and 692-699: work is built and handed to pool.starmap, one
\* task per file, in file-list order
CmdStartPool ==
    /\ cmd_pc = "start"
    /\ UsesPool(cmd_args)
    /\ cmd_pc' = "pool"
    /\ pool_queue' = [i \in 1..Len(cmd_files) |-> i]
    /\ UNCHANGED <<cmd, cmd_files, cmd_args, cmd_k, pool_running, pool_results, pool_order,
                   cmdNearVars, cmdCompareVars>>
    /\ UNCHANGED cmdOthers

\* Pool(processes=args.jobs): a free worker takes the next task of the queue
PoolTake ==
    /\ cmd_pc = "pool"
    /\ pool_queue # <<>>
    /\ Cardinality(pool_running) < cmd_args.jobs
    /\ pool_running' = pool_running \cup {Head(pool_queue)}
    /\ pool_queue' = Tail(pool_queue)
    /\ UNCHANGED <<cmd, cmd_files, cmd_args, cmd_pc, cmd_k, pool_results, pool_order,
                   cmdNearVars, cmdCompareVars>>
    /\ UNCHANGED cmdOthers

\* a worker finishes its task, whichever worker is first; the result is kept
\* under the position of the task.  An exception of the task is raised again
\* by starmap and ends the command.
PoolFinish ==
    /\ cmd_pc = "pool"
    /\ \E t \in pool_running :
          /\ pool_running' = pool_running \ {t}
          /\ pool_order' = Append(pool_order, t)
          /\ IF ScanRaises(cmd_files[t])
             THEN /\ cmd_pc' = "aborted"
                  /\ UNCHANGED pool_results
             ELSE /\ pool_results' = DictPut(pool_results, t, ScanResult(cmd_files[t]))
                  /\ UNCHANGED cmd_pc
    /\ UNCHANGED <<cmd, cmd_files, cmd_args, cmd_k, pool_queue, cmdNearVars, cmdCompareVars>>
    /\ UNCHANGED cmdOthers

\* the list in the order in which the tasks finished, as imap_unordered gives
StarmapList_Unordered(results, order, n) ==
    [i \in 1..n |-> [task |-> order[i], result |-> results[order[i]]]]

\* the list pool.starmap returns: the results in the order of the tasks of
\* work, whatever the order in which they finished
StarmapList(results, order, n) ==
    [i \in 1..n |-> [task |-> i, result |-> results[i]]]

\* every task has finished
StarmapReady ==
    /\ cmd_pc = "pool"
    /\ pool_queue = <<>>
    /\ pool_running = {}

\* line 581: pool.starmap returns and the merge loop starts
NearStarmapReturn ==
    /\ cmd = "near"
    /\ StarmapReady
    /\ cmd_partials' = StarmapList(pool_results, pool_order, Len(cmd_files))
    /\ cmd_pc' = "merge"
    /\ cmd_k' = 1
    /\ UNCHANGED <<cmd, cmd_files, cmd_args, poolVars, cmd_merged, cmd_agg, cmdCompareVars>>
    /\ UNCHANGED cmdOthers

\* lines 581-595: one iteration of "for partial in pool.starmap(...)"
NearMergeStep ==
    /\ cmd = "near"
    /\ cmd_pc = "merge"
    /\ cmd_k <= Len(cmd_partials)
    /\ cmd_agg' = MergePartial(cmd_agg, cmd_partials[cmd_k].result,
                               cmd_args.max_locs_per_token)
    /\ cmd_merged' = Append(cmd_merged, cmd_partials[cmd_k].task)
    /\ cmd_k' = cmd_k + 1
    /\ UNCHANGED <<cmd, cmd_files, cmd_args, cmd_pc, poolVars, cmd_partials, cmdCompareVars>>
    /\ UNCHANGED cmdOthers

\* lines 597-615: one iteration of "for f in files"
NearSeqStep ==
    /\ cmd = "near"
    /\ cmd_pc = "seq"
    /\ cmd_k <= Len(cmd_files)
    /\ IF ScanRaises(cmd_files[cmd_k])
       THEN /\ cmd_pc' = "aborted"
            /\ UNCHANGED <<cmd_agg, cmd_merged, cmd_k>>
       ELSE /\ cmd_agg' = MergePartial(cmd_agg, ScanResult(cmd_files[cmd_k]),
                                       cmd_args.max_locs_per_token)
            /\ cmd_merged' = Append(cmd_merged, cmd_k)
            /\ cmd_k' = cmd_k + 1
            /\ UNCHANGED cmd_pc
    /\ UNCHANGED <<cmd, cmd_files, cmd_args, poolVars, cmd_partials, cmdCompareVars>>
    /\ UNCHANGED cmdOthers

\* lines 617-669: either loop has ended; the result is printed and exported
NearDone ==
    /\ cmd = "near"
    /\ \/ cmd_pc = "seq" /\ cmd_k > Len(cmd_files)
       \/ cmd_pc = "merge" /\ cmd_k > Len(cmd_partials)
    /\ cmd_pc' = "done"
    /\ UNCHANGED <<cmd, cmd_files, cmd_args, cmd_k, poolVars, cmdNearVars, cmdCompareVars>>
    /\ UNCHANGED cmdOthers

\* line 699: rows = pool.starmap(scan_file_compare, work)
CompareStarmapReturn ==
    /\ cmd = "compare"
    /\ StarmapReady
    /\ cmd_rows' = [i \in 1..Len(cmd_files) |->
                       StarmapList(pool_results, pool_order, Len(cmd_files))[i].result]
    /\ cmd_pc' = "totals"
    /\ UNCHANGED <<cmd, cmd_files, cmd_args, cmd_k, poolVars, cmdNearVars,
                   cmd_total, cmd_overall_ok, cmd_mismatches>>
    /\ UNCHANGED cmdOthers

\* lines 701-704: one iteration of "for f in files"
CompareSeqStep ==
    /\ cmd = "compare"
    /\ cmd_pc = "seq"
    /\ cmd_k <= Len(cmd_files)
    /\ IF ScanRaises(cmd_files[cmd_k])
       THEN /\ cmd_pc' = "aborted"
            /\ UNCHANGED <<cmd_rows, cmd_k>>
       ELSE /\ cmd_rows' = Append(cmd_rows, ScanResult(cmd_files[cmd_k]))
            /\ cmd_k' = cmd_k + 1
            /\ UNCHANGED cmd_pc
    /\ UNCHANGED <<cmd, cmd_files, cmd_args, poolVars, cmdNearVars,
                   cmd_total, cmd_overall_ok, cmd_mismatches>>
    /\ UNCHANGED cmdOthers

\* line 701: the sequential loop has ended
CompareSeqEnd ==
    /\ cmd = "compare"
    /\ cmd_pc = "seq"
    /\ cmd_k > Len(cmd_files)
    /\ cmd_pc' = "totals"
    /\ UNCHANGED <<cmd, cmd_files, cmd_args, cmd_k, poolVars, cmdNearVars, cmdCompareVars>>
    /\ UNCHANGED cmdOthers

\* lines 706-710: overall_row
OverallRow(rows) ==
    LET total_a == SumTo([i \in 1..Len(rows) |-> rows[i].count_a], Len(rows))
        total_b == SumTo([i \in 1..Len(rows) |-> rows[i].count_b], Len(rows))
    IN  CompareFileRow("<TOTAL>", total_a, total_b, total_a - total_b, <<>>, <<>>)

\* lines 706-711: the totals and the check of the overall row
CompareTotals ==
    /\ cmd = "compare"
    /\ cmd_pc = "totals"
    /\ cmd_total' = OverallRow(cmd_rows)
    /\ cmd_overall_ok' = check_expectation(cmd_total', cmd_args.expect,
                                           cmd_args.ratio, cmd_args.tolerance)
    /\ cmd_pc' = "check"
    /\ cmd_k' = 1
    /\ UNCHANGED <<cmd, cmd_files, cmd_args, poolVars, cmdNearVars, cmd_rows, cmd_mismatches>>
    /\ UNCHANGED cmdOthers

\* lines 721-723: one iteration of "for r in rows"
CompareCheckRow ==
    /\ cmd = "compare"
    /\ cmd_pc = "check"
    /\ cmd_k <= Len(cmd_rows)
    /\ cmd_mismatches' =
          IF ~check_expectation(cmd_rows[cmd_k], cmd_args.expect,
                                cmd_args.ratio, cmd_args.tolerance)
          THEN Append(cmd_mismatches, cmd_rows[cmd_k])
          ELSE cmd_mismatches
    /\ cmd_k' = cmd_k + 1
    /\ UNCHANGED <<cmd, cmd_files, cmd_args, cmd_pc, poolVars, cmdNearVars,
                   cmd_rows, cmd_total, cmd_overall_ok>>
    /\ UNCHANGED cmdOthers

\* lines 725-774: the rows are printed and exported
CompareDone ==
    /\ cmd = "compare"
    /\ cmd_pc = "check"
    /\ cmd_k > Len(cmd_rows)
    /\ cmd_pc' = "done"
    /\ UNCHANGED <<cmd, cmd_files, cmd_args, cmd_k, poolVars, cmdNearVars, cmdCompareVars>>
    /\ UNCHANGED cmdOthers

PoolNext ==
    \/ CmdStartSequential
    \/ CmdStartPool
    \/ PoolTake
    \/ PoolFinish

CmdNearNext ==
    \/ NearStarmapReturn
    \/ NearMergeStep
    \/ NearSeqStep
    \/ NearDone

CmdCompareNext ==
    \/ CompareStarmapReturn
    \/ CompareSeqStep
    \/ CompareSeqEnd
    \/ CompareTotals
    \/ CompareCheckRow
    \/ CompareDone

-----------------------------------------------------------------------------
(* Specifications: one per component, over bounded inputs *)

InitLev == LevInit /\ MaskIdle /\ TokIdle /\ NearIdle /\ CmdIdle

NextLev == LevNext

SpecLev == InitLev /\ [][NextLev]_vars

InitMask == MaskInit /\ LevIdle /\ TokIdle /\ NearIdle /\ CmdIdle

NextMask == MaskNext

SpecMask == InitMask /\ [][NextMask]_vars

\* the pass is a loop of one thread: it keeps taking steps until it returns
SpecMaskLive == SpecMask /\ WF_vars(NextMask)

InitTok == TokInit /\ LevIdle /\ MaskIdle /\ NearIdle /\ CmdIdle

NextTok == TokNext

SpecTok == InitTok /\ [][NextTok]_vars

InitNear == NearInit /\ LevIdle /\ MaskIdle /\ TokIdle /\ CmdIdle

NextNear == NearNext

SpecNear == InitNear /\ [][NextNear]_vars

\* a run of "near" over a bounded file list
InitCmdNear == CmdNearInit /\ LevIdle /\ MaskIdle /\ TokIdle /\ NearIdle

NextCmdNear == PoolNext \/ CmdNearNext

SpecCmdNear == InitCmdNear /\ [][NextCmdNear]_vars

\* a run of "compare" over a bounded file list
InitCmdCompare == CmdCompareInit /\ LevIdle /\ MaskIdle /\ TokIdle /\ NearIdle

NextCmdCompare == PoolNext \/ CmdCompareNext

SpecCmdCompare == InitCmdCompare /\ [][NextCmdCompare]_vars

\* a run of either command
InitCmd == (CmdNearInit \/ CmdCompareInit) /\ LevIdle /\ MaskIdle /\ TokIdle /\ NearIdle

NextCmd == PoolNext \/ CmdNearNext \/ CmdCompareNext

SpecCmd == InitCmd /\ [][NextCmd]_vars

-----------------------------------------------------------------------------
(* C1: for all strings a, b and every k >= 0, bounded_levenshtein(a, b, k)  *)
(* returns min(trueLevenshtein(a, b), k + 1): the true distance when it is *)
(* <= k and the sentinel k + 1 otherwise; 0 when a = b, and k + 1 when the *)
(* lengths differ by more than k.                                          *)
C1_BoundedLevenshtein ==
    lev_pc = "done" =>
        /\ lev_ret = Min2(trueLevenshtein(lev_call.a, lev_call.b), lev_call.k + 1)
        /\ (lev_call.a = lev_call.b => lev_ret = 0)
        /\ (Abs(Len(lev_call.a) - Len(lev_call.b)) > lev_call.k
                => lev_ret = lev_call.k + 1)

\* a call that went through all rows of the band and returned a true distance
\* of 2 between strings of different lengths
C1_Witness ==
    /\ lev_pc = "done"
    /\ lev_exit = "final"
    /\ lev_ret = 2
    /\ Len(lev_call.a) > Len(lev_call.b)
    /\ lev_call.k = 2

-----------------------------------------------------------------------------
(* C5: the masker returns a text of exactly the same length, with '\n' at   *)
(* exactly the positions where the input has '\n', and every character it  *)
(* changes is changed to a space.  Stated of out at every point of the     *)
(* pass, so in particular of the text returned.                            *)
C5_MaskPreservesShape ==
    mask_pc \in {"loop", "break", "done"} =>
        /\ Len(mask_out) = Len(mask_src)
        /\ \A p \in 1..Len(mask_src) :
              /\ (mask_src[p] = "\n") <=> (mask_out[p] = "\n")
              /\ mask_out[p] # mask_src[p] => mask_out[p] = " "

\* the masker has returned a text in which a comment or literal that spans a
\* newline was blanked around the newline
C5_Witness ==
    /\ mask_pc = "done"
    /\ \E p \in 2..(Len(mask_src) - 1) :
          /\ mask_src[p] = "\n"
          /\ mask_out[p] = "\n"
          /\ mask_out[p - 1] = " " /\ mask_src[p - 1] # " "
          /\ mask_out[p + 1] = " " /\ mask_src[p + 1] # " "

-----------------------------------------------------------------------------
(* Positions of a text, for the statements about the tokenizer *)

\* position q (0-based) ends a line of str.splitlines: a "\n", or a "\r"
\* that is not the first half of "\r\n"
EndsLine(text, q) ==
    \/ At(text, q) = "\n"
    \/ At(text, q) = "\r" /\ ~(q + 1 < Len(text) /\ At(text, q + 1) = "\n")

\* the 1-based line of position s
LineOf(text, s) == 1 + Cardinality({q \in 0..(s - 1) : EndsLine(text, q)})

\* the 1-based column of position s: its distance from the last line break
ColOf(text, s) ==
    LET breaks == {q \in 0..(s - 1) : At(text, q) \in {"\n", "\r"}}
    IN  IF breaks = {} THEN s + 1
        ELSE s - (CHOOSE q \in breaks : \A r \in breaks : r <= q)

TokenAt(text, s, e) ==
    [tok |-> Slice(text, s, e), line |-> LineOf(text, s), col |-> ColOf(text, s)]

\* [s, e) is a run of identifier characters that starts with a letter or
\* underscore and cannot be extended to the right
IsIdentRun(text, s, e) ==
    /\ IsIdentStart(At(text, s))
    /\ \A p \in s..(e - 1) : IsIdentChar(At(text, p))
    /\ e = Len(text) \/ ~IsIdentChar(At(text, e))

\* the runs of C6 as claimed: a run may directly follow digits (the 'abc' of
\* '2abc'), but not a letter or underscore, whose run it would belong to
ClaimedRuns(text) ==
    {r \in (0..Len(text)) \X (0..Len(text)) :
        /\ r[1] < r[2]
        /\ IsIdentRun(text, r[1], r[2])
        /\ \A q \in 0..(r[1] - 1) :
              (\A p \in q..(r[1] - 1) : IsIdentChar(At(text, p)))
                  => (\A p \in q..(r[1] - 1) : At(text, p) \in AsciiDigits)}

\* the runs the pattern matches: whole words (maximal runs of word
\* characters) that are identifiers
WordRuns(text) ==
    {r \in (0..Len(text)) \X (0..Len(text)) :
        /\ r[1] < r[2]
        /\ IsIdentRun(text, r[1], r[2])
        /\ r[1] = 0 \/ ~IsWord(At(text, r[1] - 1))
        /\ r[2] = Len(text) \/ ~IsWord(At(text, r[2]))}

\* the yielded triples are in left-to-right, top-to-bottom order
YieldOrdered(y) ==
    \A i, j \in 1..Len(y) :
        i < j => \/ y[i].line < y[j].line
                 \/ y[i].line = y[j].line /\ y[i].col < y[j].col

\* the yielded triples are exactly the runs of the set runs
YieldsExactly(y, text, runs) ==
    /\ {y[i] : i \in 1..Len(y)} = {TokenAt(text, r[1], r[2]) : r \in runs}
    /\ Len(y) = Cardinality(runs)
    /\ YieldOrdered(y)

(* C6 as claimed: the tokenizer yields exactly the maximal runs "letter or  *)
(* underscore, then letters, digits, underscores", with line and column,   *)
(* in order, a run that directly follows a digit included.                 *)
C6_TokenizerAsClaimed ==
    tok_pc = "done" => YieldsExactly(tok_yield, tok_text, ClaimedRuns(tok_text))

(* C6, amended: the tokenizer yields exactly the whole words (maximal runs  *)
(* of word characters: letters, digits, underscore, non-ASCII letters      *)
(* included) that start with an ASCII letter or underscore and hold only   *)
(* ASCII letters, digits and underscores, each with its 1-based line (of   *)
(* str.splitlines) and the 1-based column of its first character, in       *)
(* left-to-right, top-to-bottom order; a run that directly follows a digit *)
(* or touches a non-ASCII word character is not yielded.                   *)
C6_TokenizerWholeWords ==
    tok_pc = "done" => YieldsExactly(tok_yield, tok_text, WordRuns(tok_text))

\* the generator has ended on a text with a letter directly after a leading
\* digit, has not yielded that run, and has yielded a later word
C6_Witness ==
    /\ tok_pc = "done"
    /\ Len(tok_text) >= 2
    /\ tok_text[1] \in AsciiDigits
    /\ IsIdentStart(tok_text[2])
    /\ Len(tok_yield) = 1
    /\ tok_yield[1].col > 2

-----------------------------------------------------------------------------
(* Statements about scan_file_near *)

\* the count out holds for token tok in bucket d; 0 when it holds none
CountIn(out, d, tok) ==
    IF d \in DOMAIN out /\ tok \in DOMAIN out[d] THEN out[d][tok].count ELSE 0

\* the occurrences among the triples toks that C7 has counted in bucket d
\* under the token text tok
C7_Counted(toks, args, d, tok) ==
    LET tcmp    == CaseNorm(tok, args.case_insensitive)
        ncmp    == CaseNorm(args.needle, args.case_insensitive)
        ignored == {CaseNorm(args.ignore_tokens[p], args.case_insensitive) :
                        p \in 1..Len(args.ignore_tokens)}
    IN  {p \in 1..Len(toks) :
            /\ toks[p].tok = tok
            /\ tcmp \notin ignored
            /\ args.same_first_char =>
                  (tcmp # <<>> /\ ncmp # <<>> /\ tcmp[1] = ncmp[1])
            /\ trueLevenshtein(tcmp, ncmp) = d
            /\ d <= args.max_dist}

(* C7: in the result of scan_file_near a token occurrence is counted in     *)
(* bucket d if and only if its case-normalised text is not in the ignore   *)
(* set, it passes the same-first-character filter when that is active, and *)
(* its true Levenshtein distance to the case-normalised needle is exactly  *)
(* d, with d <= max_dist; so every bucket key lies in 0..max_dist, and a   *)
(* token whose true distance exceeds max_dist is in no bucket.             *)
C7_NearBuckets ==
    near_pc = "done" =>
        /\ DOMAIN near_out \subseteq 0..near_args.max_dist
        /\ \A d \in 0..(NearMaxLen + NearMaxNeedle) :
              \A p \in 1..Len(near_toks) :
                  CountIn(near_out, d, near_toks[p].tok)
                      = Cardinality(C7_Counted(near_toks, near_args, d, near_toks[p].tok))
        /\ \A d \in DOMAIN near_out :
              /\ DOMAIN near_out[d] # {}
              /\ \A tok \in DOMAIN near_out[d] :
                    /\ near_out[d][tok].count >= 1
                    /\ \E p \in 1..Len(near_toks) : near_toks[p].tok = tok

\* a scan has returned with a hit at distance 1 and has dropped a token whose
\* true distance to the needle exceeds max_dist
C7_Witness ==
    /\ near_pc = "done"
    /\ 1 \in DOMAIN near_out
    /\ \E p \in 1..Len(near_toks) :
          /\ \A d \in DOMAIN near_out : near_toks[p].tok \notin DOMAIN near_out[d]
          /\ trueLevenshtein(CaseNorm(near_toks[p].tok, near_args.case_insensitive),
                             CaseNorm(near_args.needle, near_args.case_insensitive))
                 > near_args.max_dist

-----------------------------------------------------------------------------
(* The commands: what the claims speak of *)

RECURSIVE PartialsFrom(_)
\* the partials of the files from position k on
PartialsFrom(k) ==
    IF k > Len(cmd_files) THEN <<>>
    ELSE <<scan_file_near(cmd_files[k], cmd_args)>> \o PartialsFrom(k + 1)

\* the partial of every file of the list
Partials == PartialsFrom(1)

RECURSIVE MergeFrom(_, _, _, _)
\* the partials of the files order[k..] merged into agg, one after the other
MergeFrom(agg, parts, order, k) ==
    IF k > Len(order) THEN agg
    ELSE MergeFrom(MergePartial(agg, parts[order[k]], cmd_args.max_locs_per_token),
                   parts, order, k + 1)

\* the aggregate of the partials merged in the given order of files
MergeInOrder(parts, order) == MergeFrom(EmptyDict, parts, order, 1)

\* the permutations of the sequence s
PermutationsOf(s) ==
    {[i \in 1..Len(s) |-> s[p[i]]] :
        p \in {q \in [1..Len(s) -> 1..Len(s)] : \A i, j \in 1..Len(s) : q[i] = q[j] => i = j}}

RECURSIVE LocsInOrder(_, _, _, _, _)
\* the occurrences the partials of the files order[k..] hold for (d, tok)
LocsInOrder(parts, order, k, d, tok) ==
    IF k > Len(order) THEN <<>>
    ELSE LET p == parts[order[k]]
         IN  (IF d \in DOMAIN p /\ tok \in DOMAIN p[d] THEN p[d][tok].locs ELSE <<>>)
             \o LocsInOrder(parts, order, k + 1, d, tok)

\* the per-file counts of (d, tok), summed over the files of order
CountSum(parts, order, d, tok) ==
    SumTo([i \in 1..Len(order) |-> CountIn(parts[order[i]], d, tok)], Len(order))

\* the counts of an aggregate: its buckets, their tokens, and each count
CountsOf(agg) == [d \in DOMAIN agg |-> [tok \in DOMAIN agg[d] |-> agg[d][tok].count]]

\* the (distance, token) pairs of an aggregate or a partial
KeysOf(agg) == {<<d, tok>> : d \in DOMAIN agg, tok \in UNION {DOMAIN agg[e] : e \in DOMAIN agg}}
                   \cap UNION {{<<d, tok>> : tok \in DOMAIN agg[d]} : d \in DOMAIN agg}

\* C2: at every point of the merge loop of cmd_near, for every (distance,
\* token): the token is in the aggregate iff a merged file has it, its count is
\* the exact sum of the per-file counts, and its occurrence list is the
\* per-file lists in merge order, cut at the cap when the cap is > 0 -- so it
\* never holds more than cap entries, and what comes after the cap is counted
\* but not recorded.
C2_MergeSumsAndCaps ==
    cmd = "near" =>
        IF cmd_merged = <<>> THEN cmd_agg = EmptyDict
        ELSE LET parts == Partials
                 cap   == cmd_args.max_locs_per_token
             IN  /\ KeysOf(cmd_agg) =
                        UNION {KeysOf(parts[cmd_merged[i]]) : i \in 1..Len(cmd_merged)}
                 /\ \A d \in DOMAIN cmd_agg : cmd_agg[d] # EmptyDict
                 /\ \A key \in KeysOf(cmd_agg) :
                        LET cur == cmd_agg[key[1]][key[2]]
                            all == LocsInOrder(parts, cmd_merged, 1, key[1], key[2])
                        IN  /\ cur.token = key[2]
                            /\ cur.count = CountSum(parts, cmd_merged, key[1], key[2])
                            /\ cap > 0 => Len(cur.locs) <= cap
                            /\ cur.locs = IF cap = 0 THEN all ELSE Take(all, cap)

\* two files were merged and a token has more occurrences counted than the
\* cap lets it record
C2_Witness ==
    /\ cmd = "near"
    /\ Len(cmd_merged) = 2
    /\ cmd_args.max_locs_per_token > 0
    /\ \E d \in DOMAIN cmd_agg : \E tok \in DOMAIN cmd_agg[d] :
          /\ Len(cmd_agg[d][tok].locs) = cmd_args.max_locs_per_token
          /\ cmd_agg[d][tok].count > cmd_args.max_locs_per_token
          /\ CountIn(Partials[1], d, tok) > 0
          /\ CountIn(Partials[2], d, tok) > 0

\* C3: merging the same per-file partials in any permutation gives the same
\* distance buckets, the same tokens in each bucket and the same count for
\* every (distance, token) as the merge the command made.
C3_MergeOrderIndependentCounts ==
    cmd = "near" /\ Len(cmd_merged) >= 2 =>
        LET parts == Partials
        IN  \A order \in PermutationsOf(cmd_merged) :
                CountsOf(MergeInOrder(parts, order)) = CountsOf(cmd_agg)

\* the run has merged its files and another order of the same partials
\* retains other occurrences under the cap
C3_Witness ==
    /\ cmd = "near"
    /\ cmd_pc = "done"
    /\ Len(cmd_merged) = CmdMaxFiles
    /\ \E order \in PermutationsOf(cmd_merged) :
          /\ MergeInOrder(Partials, order) # cmd_agg
          /\ CountsOf(MergeInOrder(Partials, order)) = CountsOf(cmd_agg)

\* s is the first Len(s) elements of t
IsPrefix(s, t) == Len(s) <= Len(t) /\ s = SubSeq(t, 1, Len(s))

\* C4 as the claim states it: with a worker count >= 2 the results are
\* collected, and in near mode merged, in the order in which the workers
\* finished.
C4_CollectedInCompletionOrder ==
    UsesPool(cmd_args) =>
        /\ cmd = "near" => IsPrefix(cmd_merged, pool_order)
        /\ cmd = "compare" => \A i \in 1..Len(cmd_rows) : cmd_rows[i].path = pool_order[i]

\* C4: whatever the worker count and the order in which the workers finish,
\* the results are collected and merged in file-list order: the aggregate of a
\* finished near run, its retained occurrences included, is the one of the
\* sequential loop over the file list, and row i of the rows compare has
\* collected is the row of file i.
C4_CollectedInSubmissionOrder ==
    /\ cmd = "near" =>
          /\ cmd_merged = [i \in 1..Len(cmd_merged) |-> i]
          /\ cmd_pc = "done" => cmd_agg = NearFold(EmptyDict, cmd_files, 1, cmd_args)
    /\ cmd = "compare" /\ cmd_pc = "totals" =>
          cmd_rows = [i \in 1..Len(cmd_files) |-> scan_file_compare(cmd_files[i], cmd_args)]

\* a near run with a pool has finished; its workers finished against the
\* file-list order, and merging in that order would have retained other
\* occurrences
C4_Witness ==
    /\ cmd = "near"
    /\ cmd_pc = "done"
    /\ UsesPool(cmd_args)
    /\ pool_order # [i \in 1..Len(pool_order) |-> i]
    /\ MergeInOrder(Partials, pool_order) # cmd_agg

\* the triples scan_file_compare iterates over in a readable file
CompareTokens(file) == ScanTokens(file.text, cmd_args.mask)

\* the token occurrence equals A (B) after case normalisation
IsA(t) == CaseNorm(t.tok, cmd_args.case_insensitive) = CaseNorm(cmd_args.a, cmd_args.case_insensitive)

IsB(t) == CaseNorm(t.tok, cmd_args.case_insensitive) = CaseNorm(cmd_args.b, cmd_args.case_insensitive)

\* the row is the one the claim describes for the file
C8_RowOf(row, file) ==
    LET toks == IF file.readable THEN CompareTokens(file) ELSE <<>>
        asA  == {i \in DOMAIN toks : IsA(toks[i])}
        asB  == {i \in DOMAIN toks : IsB(toks[i]) /\ ~IsA(toks[i])}
    IN  /\ row.path = file.path
        /\ row.count_a = Cardinality(asA)
        /\ row.count_b = Cardinality(asB)
        /\ row.count_a + row.count_b <= Len(toks)
        /\ CaseNorm(cmd_args.a, cmd_args.case_insensitive)
             = CaseNorm(cmd_args.b, cmd_args.case_insensitive) => row.count_b = 0
        /\ row.diff = row.count_a - row.count_b

\* C8: compare mode collects exactly one row per scanned file, in which every
\* occurrence equal to A counts for A only and every other occurrence equal to
\* B counts for B (so count_b stays 0 when A and B are equal after case
\* normalisation), and in every row, the total row of the summed counts
\* included, diff = count_a - count_b.
C8_CompareRows ==
    cmd = "compare" =>
        /\ Len(cmd_rows) <= Len(cmd_files)
        /\ cmd_pc \in {"totals", "check", "done"} => Len(cmd_rows) = Len(cmd_files)
        /\ cmd_pc \in {"seq", "totals"} =>
              \A i \in 1..Len(cmd_rows) : C8_RowOf(cmd_rows[i], cmd_files[i])
        /\ \A i \in 1..Len(cmd_rows) :
              cmd_rows[i].diff = cmd_rows[i].count_a - cmd_rows[i].count_b
        /\ cmd_pc \in {"check", "done"} =>
              /\ cmd_total.count_a =
                    SumTo([i \in 1..Len(cmd_rows) |-> cmd_rows[i].count_a], Len(cmd_rows))
              /\ cmd_total.count_b =
                    SumTo([i \in 1..Len(cmd_rows) |-> cmd_rows[i].count_b], Len(cmd_rows))
              /\ cmd_total.diff = cmd_total.count_a - cmd_total.count_b

\* a finished compare run in which A and B are equal after case normalisation
\* only, and two files hold occurrences of them
C8_Witness ==
    /\ cmd = "compare"
    /\ cmd_pc = "done"
    /\ cmd_args.a # cmd_args.b
    /\ CaseNorm(cmd_args.a, cmd_args.case_insensitive)
         = CaseNorm(cmd_args.b, cmd_args.case_insensitive)
    /\ Len(cmd_rows) = 2
    /\ cmd_rows[1].count_a > 0
    /\ cmd_rows[2].count_a > 0
    /\ cmd_total.diff = cmd_total.count_a

\* the file can be read
IsReadable(file) == file.readable

\* the file list with the files whose read fails removed
ReadableFiles == SelectSeq(cmd_files, IsReadable)

\* the row belongs to a file that can be read
OfReadable(row) == cmd_files[row.path].readable

\* C9: no run ends with an exception.  In near mode the scan of a file whose
\* read fails returns the empty result and the finished aggregate is the one of
\* the run over the file list without the files whose read fails; in compare
\* mode a finished run has the row of zeros with empty occurrence lists for
\* such a file, and the rows of the other files are the rows of the run
\* without the failing files.
C9_ReadFailureAbsorbed ==
    /\ cmd_pc # "aborted"
    /\ cmd = "near" =>
          /\ \A i \in 1..Len(cmd_files) :
                ~cmd_files[i].readable => scan_file_near(cmd_files[i], cmd_args) = EmptyDict
          /\ cmd_pc = "done" => cmd_agg = NearFold(EmptyDict, ReadableFiles, 1, cmd_args)
    /\ cmd = "compare" /\ cmd_pc = "done" =>
          /\ \A i \in 1..Len(cmd_files) :
                ~cmd_files[i].readable =>
                    cmd_rows[i] = CompareFileRow(cmd_files[i].path, 0, 0, 0, <<>>, <<>>)
          /\ SelectSeq(cmd_rows, OfReadable) =
                [j \in 1..Len(ReadableFiles) |-> scan_file_compare(ReadableFiles[j], cmd_args)]

\* a near run over a file whose read fails and, after it, a file with hits has
\* finished
C9_Witness ==
    /\ cmd = "near"
    /\ cmd_pc = "done"
    /\ Len(cmd_files) = 2
    /\ ~cmd_files[1].readable
    /\ cmd_files[2].readable
    /\ cmd_agg # EmptyDict

\* what the claim says of a row: equal, a>=b, b>=a, and ratio with the ratio
\* num/den
C10_Passes(row) ==
    LET tolerance == cmd_args.tolerance
        ratio     == cmd_args.ratio
    IN  CASE cmd_args.expect = "equal" -> Abs(row.diff) <= tolerance
          [] cmd_args.expect = "a>=b"  -> row.diff >= 0 - tolerance
          [] cmd_args.expect = "b>=a"  -> row.diff <= tolerance
          [] cmd_args.expect = "ratio" ->
                /\ row.count_a * ratio.den - ratio.num * row.count_b <= tolerance * ratio.den
                /\ ratio.num * row.count_b - row.count_a * ratio.den <= tolerance * ratio.den

C10_Fails(row) == ~C10_Passes(row)

\* C10: the overall verdict is the claim's condition on the total row, and the
\* mismatches are, in order, the per-file rows checked so far that do not meet
\* the same condition with the same expect, ratio and tolerance.
C10_Expectation ==
    cmd = "compare" /\ cmd_pc \in {"check", "done"} =>
        /\ cmd_overall_ok = C10_Passes(cmd_total)
        /\ cmd_mismatches = SelectSeq(SubSeq(cmd_rows, 1, cmd_k - 1), C10_Fails)

\* a finished run with expect a>=b and tolerance 1: the row with diff -1
\* passes, the row with diff -2 is a mismatch, and the total fails
C10_Witness ==
    /\ cmd = "compare"
    /\ cmd_pc = "done"
    /\ cmd_args.expect = "a>=b"
    /\ cmd_args.tolerance = 1
    /\ Len(cmd_rows) = 2
    /\ cmd_rows[1].diff = -1
    /\ cmd_rows[2].diff = -2
    /\ cmd_mismatches = <<cmd_rows[2]>>
    /\ ~cmd_overall_ok

-----------------------------------------------------------------------------
(* Statements about unterminated regions of the masker *)

\* the number of backslashes directly before position p, back to position lo
RECURSIVE BackslashesBefore(_, _, _)
BackslashesBefore(src, lo, p) ==
    IF p - 1 >= lo /\ At(src, p - 1) = "\\" THEN 1 + BackslashesBefore(src, lo, p - 1) ELSE 0

\* the literal opened by the quote q at position j is closed: a later q is
\* preceded by an even number of backslashes of the literal
LiteralClosed(src, j, q) ==
    \E p \in (j + 1)..(Len(src) - 1) :
        /\ At(src, p) = q
        /\ BackslashesBefore(src, j + 1, p) % 2 = 0

\* the block comment opened at position j is closed: "*/" follows its "/*"
BlockCommentClosed(src, j) ==
    \E p \in (j + 2)..(Len(src) - 2) : At(src, p) = "*" /\ At(src, p + 1) = "/"

\* the raw string opened by R" at position j is closed: a "(" follows, and
\* after the first one the sequence )delim" with the delimiter before it
RawStringClosed(src, j) ==
    \E paren \in (j + 2)..(Len(src) - 1) :
        /\ At(src, paren) = "("
        /\ \A p \in (j + 2)..(paren - 1) : At(src, p) # "("
        /\ \E c \in (paren + 1)..(Len(src) - 1) :
              /\ At(src, c) = ")"
              /\ c + (paren - (j + 2)) + 1 < Len(src)
              /\ Slice(src, c + 1, c + 1 + (paren - (j + 2))) = Slice(src, j + 2, paren)
              /\ At(src, c + 1 + (paren - (j + 2))) = "\""

\* a block comment, string, char literal or raw string is opened at position
\* j and never closed
OpensUnclosed(src, j) ==
    \/ IsBlockComment(src, j) /\ ~BlockCommentClosed(src, j)
    \/ At(src, j) = "\"" /\ ~LiteralClosed(src, j, "\"")
    \/ At(src, j) = "'" /\ ~LiteralClosed(src, j, "'")
    \/ IsRawString(src, j) /\ ~RawStringClosed(src, j)

\* the step of the loop at an opening delimiter that is never closed ends the
\* loop and leaves a space at every position from the delimiter on that does
\* not hold "\n"
C11_Step ==
    (mask_pc = "loop" /\ mask_i < Len(mask_src) /\ OpensUnclosed(mask_src, mask_i)) =>
        /\ mask_pc' = "break" \/ (mask_pc' = "loop" /\ mask_i' >= Len(mask_src))
        /\ Len(mask_out') = Len(mask_src)
        /\ \A p \in mask_i..(Len(mask_src) - 1) :
              mask_out'[p + 1] = IF At(mask_src, p) = "\n" THEN "\n" ELSE " "

(* C11: when the masker meets the opening delimiter of a block comment, a   *)
(* string, a char literal or a raw string that is never closed, it blanks  *)
(* every character but "\n" from the delimiter to the end of the input and *)
(* leaves the loop; and every pass returns.                                *)
C11_UnterminatedMaskedToEnd == [][C11_Step]_vars /\ <>(mask_pc = "done")

\* the masker has returned on a/*/ with the three characters of the comment
\* blanked
C11_Witness ==
    /\ mask_pc = "done"
    /\ mask_src = <<"a", "/", "*", "/">>
    /\ mask_out = <<"a", " ", " ", " ">>

-----------------------------------------------------------------------------
(* Statements about the masked text as the tokenizer reads it *)

(* C12 as the claim states it: every character of a line that the masker   *)
(* leaves as it was has, by the line splitting of str.splitlines, the same *)
(* 1-based line and column in the masked text as in the text given.        *)
C12_LinesPreserved ==
    mask_pc = "done" =>
        \A p \in 0..(Len(mask_src) - 1) :
            At(mask_out, p) = At(mask_src, p) /\ At(mask_src, p) \notin {"\n", "\r"} =>
                /\ LineOf(mask_out, p) = LineOf(mask_src, p)
                /\ ColOf(mask_out, p) = ColOf(mask_src, p)

\* the position of the triple y of iter_identifiers_with_pos in text
OffsetOf(text, y) ==
    CHOOSE s \in 0..(Len(text) - 1) :
        /\ LineOf(text, s) = y.line
        /\ ColOf(text, s) = y.col
        /\ At(text, s) = y.tok[1]

\* the tokens the tokenizer yields from text, each with its character offset
OffsetTokens(text) ==
    LET y == iter_identifiers_with_pos(text)
    IN  {<<OffsetOf(text, y[i]), y[i].tok>> : i \in 1..Len(y)}

(* C14 as the claim states it: every token the tokenizer yields from the    *)
(* masked text has the text and the character offset of a token it yields  *)
(* from the text given.                                                    *)
C14_MaskCreatesNoToken ==
    mask_pc = "done" => OffsetTokens(mask_out) \subseteq OffsetTokens(mask_src)

-----------------------------------------------------------------------------
(* C13: whenever bounded_levenshtein leaves the loop of rows early, because *)
(* the minimum of the band cells of some row exceeds k, the true           *)
(* Levenshtein distance of a and b is greater than k: no pair at distance  *)
(* <= k is abandoned, and a call on such a pair goes through every row.    *)
C13_AbandonmentSound ==
    /\ lev_pc = "done" /\ lev_exit = "row" =>
          /\ lev_ret = lev_call.k + 1
          /\ trueLevenshtein(lev_call.a, lev_call.b) > lev_call.k
    /\ lev_pc = "done" /\ lev_call.a # lev_call.b
         /\ trueLevenshtein(lev_call.a, lev_call.b) <= lev_call.k =>
          /\ lev_exit = "final"
          /\ lev_i = Len(lev_a) + 1

\* a call with k >= 1 was abandoned at its second row, with a row still to
\* come
C13_Witness ==
    /\ lev_pc = "done"
    /\ lev_exit = "row"
    /\ lev_call.k >= 1
    /\ lev_i = 2
    /\ Len(lev_a) > 2

=============================================================================
